---- MODULE Spec2Model ----
(***************************************************************************)
(* Model of fairscale/experimental/nn/sparse_softmax.py: the softmax       *)
(* kernels built on an output projection (BaselineSoftmax, InplaceSoftmax, *)
(* TiledSoftmax, TopKSoftmax, TopKTiledSoftmax, TopKFaissSoftmax).         *)
(*                                                                         *)
(* Tensors are finite sequences of integers (1-based positions); a         *)
(* vocabulary index, a token-row index and a top-k index are 0-based       *)
(* values as in the source, so index i names position i + 1.  A            *)
(* probability is an exact fraction: an output row is a record             *)
(* [num, den] whose column c holds num[c + 1] / den, reduced to lowest     *)
(* terms.  exp(x) of an integer logit x is the power 2^x, which keeps      *)
(* what softmax uses of exp: it is positive, strictly increasing and       *)
(* exp(a + b) = exp(a) * exp(b).                                           *)
(*                                                                         *)
(* The module also models the SSD offload handle and the flat buffer that  *)
(* tests/nn/data_parallel/test_fsdp_offload.py drives (SpecSsd,            *)
(* SpecBuffer): their implementation is not part of the sources at hand,   *)
(* so their operations follow the design document, and the tests where     *)
(* they exercise them.                                                     *)
(***************************************************************************)
EXTENDS Integers, Sequences, FiniteSets, TLC

\* ---------------------------------------------------------------- bounds
MaxVocab == 2        \* out_dim ranges over 1..MaxVocab
MaxTokens == 1       \* tokens ranges over 1..MaxTokens
MaxTileFactor == 2   \* tile_factor ranges over 1..MaxTileFactor
MaxCalls == 2        \* forward calls counted per kernel
MaxWideVocab == 5    \* out_dim of the uniform weights of InitTiles
MaxOffset == 1       \* file offsets range over -1..MaxOffset
MaxCapacity == 4     \* the flat buffer holds 1..MaxCapacity elements
MaxInstances == 2    \* TopKFaissSoftmax objects constructed per run
MaxSize == 2         \* an inserted tensor holds 1..MaxSize elements

\* ------------------------------------------------------------- data sets
\* The values an element of the weight and of the activation can take; the
\* logit rows vary through the weight, the activation keeps one value.
WeightVals == {0 - 1, 0, 1}
ActVals == {2}
DTypes == {"float16", "float32"}

\* proj_weight has shape [out_dim, in_dim]; in_dim is 1 in this model.
WeightRow == [1..1 -> WeightVals]
ActRow == [1..1 -> ActVals]

\* ------------------------------------------------------------ arithmetic
RECURSIVE SumSeq(_)
SumSeq(s) == IF s = <<>> THEN 0 ELSE Head(s) + SumSeq(Tail(s))

RECURSIVE Gcd(_, _)
Gcd(a, b) == IF b = 0 THEN a ELSE Gcd(b, a % b)

RECURSIVE GcdSeq(_)
GcdSeq(s) == IF s = <<>> THEN 0 ELSE Gcd(Head(s), GcdSeq(Tail(s)))

MinOf(S) == CHOOSE m \in S : \A x \in S : m <= x

\* (a * b).sum(): the dot product of two rows of length in_dim.
Dot(a, b) == SumSeq([h \in 1..Len(a) |-> a[h] * b[h]])

\* nn.Linear without bias: x = fc(input), x[t][v] = input[t] . weight[v].
Linear(w, x) == [t \in 1..Len(x) |-> [v \in 1..Len(w) |-> Dot(x[t], w[v])]]

\* Variant: a last chunk shorter than split_size is dropped.
RECURSIVE SplitWhole(_, _)
SplitWhole(s, size) ==
    IF Len(s) < size THEN <<>>
    ELSE IF Len(s) = size THEN <<s>>
    ELSE <<SubSeq(s, 1, size)>>
            \o SplitWhole(SubSeq(s, size + 1, Len(s)), size)

\* torch.split(tensor, split_size, 0): chunks of split_size rows, the last
\* one shorter when the length is not a multiple.  split_size > 0.
RECURSIVE Split(_, _)
Split(s, size) ==
    IF Len(s) = 0 THEN <<>>
    ELSE IF Len(s) <= size THEN <<s>>
    ELSE <<SubSeq(s, 1, size)>> \o Split(SubSeq(s, size + 1, Len(s)), size)

\* torch.split raises on split_size 0 of a non-empty dimension.
SplitOk(len, size) == size > 0 \/ len = 0

\* ------------------------------------------------------------------ topk
\* torch.topk(row, k): the k largest entries in descending order and their
\* 0-based indices.  Which of several equal entries is taken is left open
\* by torch; low = TRUE takes the lowest index first, FALSE the highest.
RECURSIVE TopKPos(_, _, _, _)
TopKPos(row, k, low, taken) ==
    IF k = 0 THEN <<>>
    ELSE LET cand == (1..Len(row)) \ taken
             best == CHOOSE p \in cand : \A q \in cand :
                        \/ row[p] > row[q]
                        \/ row[p] = row[q] /\ (IF low THEN p <= q ELSE p >= q)
         IN  <<best>> \o TopKPos(row, k - 1, low, taken \cup {best})

\* Variant: the upper limit is off by one, k = size is refused.
TopKOkStrict(width, k) == 0 <= k /\ k < width

\* torch.topk raises unless 0 <= k <= size of the last dimension.
TopKOk(width, k) == 0 <= k /\ k <= width

TopK(x, k, low) ==
    LET P == [t \in 1..Len(x) |-> TopKPos(x[t], k, low, {})]
    IN  [D |-> [t \in 1..Len(x) |-> [m \in 1..k |-> x[t][P[t][m]]]],
         I |-> [t \in 1..Len(x) |-> [m \in 1..k |-> P[t][m] - 1]]]

\* ------------------------------------------------------- sparse tensors
\* The values f[c] of the columns c of a set, in some order.
RECURSIVE SetToSeq(_, _)
SetToSeq(S, f) ==
    IF S = {} THEN <<>>
    ELSE LET c == CHOOSE x \in S : TRUE
         IN  <<f[c]>> \o SetToSeq(S \ {c}, f)

\* A COO tensor is the sequence of its <<row, col, value>> entries,
\* uncoalesced; += concatenates, reading an element sums its duplicates.
Coo(rows, cols, vals) == [e \in 1..Len(rows) |-> <<rows[e], cols[e], vals[e]>>]

\* tensor.reshape(-1) of a [tokens, n] matrix.
RECURSIVE Flatten(_)
Flatten(m) == IF m = <<>> THEN <<>> ELSE Head(m) \o Flatten(Tail(m))

Specified(sp, r) == {sp[e][2] : e \in {i \in 1..Len(sp) : sp[i][1] = r}}

Coalesced(sp, r, c) ==
    SumSeq([e \in 1..Len(sp) |->
              IF sp[e][1] = r /\ sp[e][2] = c THEN sp[e][3] ELSE 0])

Pow2(n) == 2 ^ n

\* The row num[c] / den, the fractions brought to one lowest denominator.
\* A row without any specified entry is all zeros.
Normalise(num, den) ==
    LET g == Gcd(GcdSeq(num), den)
    IN  IF g = 0 THEN [num |-> num, den |-> 1]
        ELSE [num |-> [c \in 1..Len(num) |-> num[c] \div g],
              den |-> den \div g]

\* Variant: a dense softmax whose unselected entries are masked after the
\* normalisation, so the denominator counts them (as logit 0) too.
SparseSoftmaxMasked(sp, tokens, vocabs) ==
    [t \in 1..tokens |->
        LET cols == Specified(sp, t - 1)
            v == [c \in 0..(vocabs - 1) |->
                    IF c \in cols THEN Coalesced(sp, t - 1, c) ELSE 0]
            lo == MinOf({v[c] : c \in 0..(vocabs - 1)})
        IN  Normalise([c \in 1..vocabs |->
                         IF (c - 1) \in cols THEN Pow2(v[c - 1] - lo) ELSE 0],
                      SumSeq([c \in 1..vocabs |-> Pow2(v[c - 1] - lo)]))]

\* Variant: the fill value of the sparse tensor is taken as 0, not -inf.
SparseSoftmaxFillZero(sp, tokens, vocabs) ==
    [t \in 1..tokens |->
        LET v == [c \in 0..(vocabs - 1) |-> Coalesced(sp, t - 1, c)]
            lo == MinOf({v[c] : c \in 0..(vocabs - 1)})
            e == [c \in 1..vocabs |-> Pow2(v[c - 1] - lo)]
        IN  Normalise(e, SumSeq(e))]

\* torch.sparse.softmax(result, dim=1).to_dense(): in every row the
\* softmax over the specified entries only; the others stay zero.
SparseSoftmaxDense(sp, tokens, vocabs) ==
    [t \in 1..tokens |->
        LET cols == Specified(sp, t - 1)
            lo == MinOf({Coalesced(sp, t - 1, c) : c \in cols})
            e == [c \in 0..(vocabs - 1) |->
                    IF c \in cols THEN Pow2(Coalesced(sp, t - 1, c) - lo)
                    ELSE 0]
        IN  Normalise([c \in 1..vocabs |-> e[c - 1]],
                      SumSeq(SetToSeq(cols, e)))]

\* F.softmax(x, dim=-1) of a dense matrix.
Softmax(x) ==
    [t \in 1..Len(x) |->
        LET lo == MinOf({x[t][c] : c \in 1..Len(x[t])})
            e == [c \in 1..Len(x[t]) |-> Pow2(x[t][c] - lo)]
        IN  Normalise(e, SumSeq(e))]

\* Variant: the conversion is left out.
ToFloatKeep(dt) == dt

\* tensor.float(): the values are kept, the element type becomes float32.
ToFloat(dt) == "float32"

\* ------------------------------------------------------ TopKTiledSoftmax
\* proj_weight.T
Transpose(w) ==
    IF w = <<>> THEN <<>>
    ELSE [h \in 1..Len(w[1]) |-> [v \in 1..Len(w) |-> w[v][h]]]

\* torch.cat(list, dim=-1) of a list of [tokens, n_i] matrices.
RECURSIVE CatLast(_, _)
CatLast(list, tokens) ==
    IF list = <<>> THEN [t \in 1..tokens |-> <<>>]
    ELSE LET rest == CatLast(Tail(list), tokens)
         IN  [t \in 1..tokens |-> Head(list)[t] \o rest[t]]

\* Variant: the tile-local indices are appended without the offset base.
RECURSIVE TileLoopNoBase(_, _, _, _, _)
TileLoopNoBase(tiles, x, kk, low, n) ==
    IF n = 0 THEN [val |-> <<>>, idx |-> <<>>, base |-> 0]
    ELSE LET prev == TileLoopNoBase(tiles, x, kk, low, n - 1)
             fc == tiles[n]
             tk == TopK(Linear(fc, x), kk, low)
         IN  [val |-> Append(prev.val, tk.D),
              idx |-> Append(prev.idx, tk.I),
              base |-> prev.base + Len(fc)]

\* Variant: the offset advances by k, not by the width of the tile.
RECURSIVE TileLoopBaseK(_, _, _, _, _)
TileLoopBaseK(tiles, x, kk, low, n) ==
    IF n = 0 THEN [val |-> <<>>, idx |-> <<>>, base |-> 0]
    ELSE LET prev == TileLoopBaseK(tiles, x, kk, low, n - 1)
             fc == tiles[n]
             tk == TopK(Linear(fc, x), kk, low)
         IN  [val |-> Append(prev.val, tk.D),
              idx |-> Append(prev.idx,
                        [t \in 1..Len(x) |->
                            [m \in 1..kk |-> tk.I[t][m] + prev.base]]),
              base |-> prev.base + kk]

\* The loop over self.fcs: after n tiles, the lists val and idx and base.
RECURSIVE TileLoop(_, _, _, _, _)
TileLoop(tiles, x, kk, low, n) ==
    IF n = 0 THEN [val |-> <<>>, idx |-> <<>>, base |-> 0]
    ELSE LET prev == TileLoop(tiles, x, kk, low, n - 1)
             fc == tiles[n]
             tk == TopK(Linear(fc, x), kk, low)
         IN  [val |-> Append(prev.val, tk.D),
              idx |-> Append(prev.idx,
                        [t \in 1..Len(x) |->
                            [m \in 1..kk |-> tk.I[t][m] + prev.base]]),
              base |-> prev.base + Len(fc)]

\* torch.topk in the loop raises when k is out of range for a tile.
TilesOk(tiles, kk) == \A n \in 1..Len(tiles) : TopKOk(Len(tiles[n]), kk)

\* Variant: every one of the k places gathers the index of the best
\* candidate.
FinalTopKFirst(tiles, x, kk, low) ==
    LET loop == TileLoop(tiles, x, kk, low, Len(tiles))
        val == CatLast(loop.val, Len(x))
        idx == CatLast(loop.idx, Len(x))
        tk == TopK(val, kk, low)
    IN  [val |-> tk.D,
         idx |-> [t \in 1..Len(x) |-> [m \in 1..kk |-> idx[t][tk.I[t][1] + 1]]]]

\* Top-K again over the concatenated candidates, then gather the indices.
FinalTopK(tiles, x, kk, low) ==
    LET loop == TileLoop(tiles, x, kk, low, Len(tiles))
        val == CatLast(loop.val, Len(x))
        idx == CatLast(loop.idx, Len(x))
        tk == TopK(val, kk, low)
    IN  [val |-> tk.D,
         idx |-> [t \in 1..Len(x) |-> [m \in 1..kk |-> idx[t][tk.I[t][m] + 1]]]]

\* Variant: the second top-K is skipped, every candidate of every tile is
\* entered.
TopKCooCandidates(tiles, x, kk, low) ==
    LET loop == TileLoop(tiles, x, kk, low, Len(tiles))
        val == CatLast(loop.val, Len(x))
        idx == CatLast(loop.idx, Len(x))
        j == [t \in 1..Len(x) |-> [m \in 1..Len(idx[t]) |-> t - 1]]
    IN  Coo(Flatten(j), Flatten(idx), Flatten(val))

\* The sparse tensor of the top-K results (rows j, columns idx).
TopKCoo(tiles, x, kk, low) ==
    LET f == FinalTopK(tiles, x, kk, low)
        j == [t \in 1..Len(x) |-> [m \in 1..kk |-> t - 1]]
    IN  Coo(Flatten(j), Flatten(f.idx), Flatten(f.val))

\* The sparse tensor of the targets: the logit of each token's label,
\* recomputed from the gathered weight column.
TargetCoo(wT, x, tgt) ==
    LET w == [h \in 1..Len(wT) |-> [t \in 1..Len(tgt) |-> wT[h][tgt[t] + 1]]]
        wt == Transpose(w)
        val == [t \in 1..Len(x) |-> Dot(x[t], wt[t])]
        j == [t \in 1..Len(tgt) |-> t - 1]
    IN  Coo(j, tgt, val)

\* Variant: the targets are never added.
SparseResultNoTarget(tiles, wT, x, tgt, kk, low) == TopKCoo(tiles, x, kk, low)

\* result += result_target
SparseResult(tiles, wT, x, tgt, kk, low) ==
    TopKCoo(tiles, x, kk, low) \o TargetCoo(wT, x, tgt)

TopKTiledOut(tiles, wT, nvocabs, half, x, tgt, kk, low, dt) ==
    [dtype |-> IF half THEN ToFloat(dt) ELSE dt,
     rows |-> SparseSoftmaxDense(SparseResult(tiles, wT, x, tgt, kk, low),
                                 Len(x), nvocabs)]

\* ---------------------------------------------------------- TiledSoftmax
\* The loop over torch.split(input, tokens // tile_factor, 0): one dense
\* softmax per chunk of tokens, appended to the list out.
TiledOut(fc, half, x, tf, dt) ==
    LET chunks == Split(x, Len(x) \div tf)
    IN  [i \in 1..Len(chunks) |->
            [dtype |-> IF half THEN ToFloat(dt) ELSE dt,
             rows |-> Softmax(Linear(fc, chunks[i]))]]

\* -------------------------------------------------------- InplaceSoftmax
\* x.exp_(); x_sum = torch.sum(x, dim=-1, keepdim=True); x /= x_sum.  The
\* quotient exp(x[c]) / sum exp(x) is written over the common factor
\* exp(lo) of the row, which keeps the powers integral.
InplaceOut(fc, x, dt) ==
    LET lg == Linear(fc, x)
    IN  [dtype |-> dt,
         rows |-> [t \in 1..Len(x) |->
            LET lo == MinOf({lg[t][c] : c \in 1..Len(lg[t])})
                e == [c \in 1..Len(lg[t]) |-> Pow2(lg[t][c] - lo)]
                x_sum == SumSeq(e)
            IN  Normalise(e, x_sum)]]

\* --------------------------------------- BaselineSoftmax, TopKSoftmax
\* BaselineSoftmax.forward: projection, .float() when fp16, softmax.
BaselineOut(fc, half, x, dt) ==
    [dtype |-> IF half THEN ToFloat(dt) ELSE dt,
     rows |-> Softmax(Linear(fc, x))]

\* TopKSoftmax.forward: x + mask is -inf (probability 0) outside the
\* top-K indices and the target, and x itself inside.
TopKSelect(fc, x, kk, low) == TopK(Linear(fc, x), kk, low)

TopKOut(fc, x, tgt, kk, low, dt) ==
    LET lg == Linear(fc, x)
        tk == TopKSelect(fc, x, kk, low)
    IN  [dtype |-> dt,
         rows |-> [t \in 1..Len(x) |->
            LET cols == {tk.I[t][m] : m \in 1..kk} \cup {tgt[t]}
                lo == MinOf({lg[t][c + 1] : c \in cols})
                e == [c \in 1..Len(fc) |->
                        IF (c - 1) \in cols THEN Pow2(lg[t][c] - lo) ELSE 0]
            IN  Normalise(e, SumSeq(e))]]

\* ----------------------------------------------------------------- state
VARIABLES
    proj_weight,   \* the projection weight handed to the constructor
    dtype,         \* element type of proj_weight and of the activation
    input,         \* the activation, [tokens, in_dim]
    target,        \* the labels, one vocabulary index per token
    tieLow,        \* how this build's torch.topk orders equal entries
    kind,          \* class of the kernel
    k,             \* self.k
    tile_factor,   \* self.tile_factor (TiledSoftmax)
    fcs,           \* self.fcs: the weights of the tile projections
    weight,        \* self.weight = proj_weight.T
    vocabs,        \* self.vocabs
    fp16,          \* self.fp16
    pc,            \* "new", "ready", "done" or "raised"
    calls,         \* forward calls made so far (counted up to MaxCalls)
    out            \* what the last forward returned

\* The module-level resource of TopKFaissSoftmax and the instances built.
VARIABLES
    _res,          \* the global _res: None or the resource object
    instances,     \* the TopKFaissSoftmax objects constructed so far
    trail          \* the module faiss, and what happened to _res so far

\* The SSD offload handle of the training tests, its twin and its file.
VARIABLES
    ssd_handle,    \* the SsdTensorHandle / SsdParameter under test
    files,         \* content of the backing files, by path
    orig_tensor,   \* the tensor the handle was made from
    orig_copy,     \* the plain in-memory twin (param for SsdParameter)
    ret,           \* operation called last, its error and its value
    hist,          \* optimizer steps made, value replaced, value persisted
    ssd_buffer     \* the flat buffer: capacity, cursor, assigned regions

data == <<proj_weight, dtype, input, target, tieLow>>
kernel == <<kind, k, tile_factor, fcs, weight, vocabs, fp16>>
globals == <<_res, instances, trail>>
offload == <<ssd_handle, files, orig_tensor, orig_copy, ret, hist>>
vars == <<data, kernel, pc, calls, out, globals, offload, ssd_buffer>>

\* A forward returns one tensor ("tensor") or a Python list of tensors
\* ("list"); "none" before the first return and after an exception.
NoOut == [is |-> "none", val |-> <<>>]
Tensor(x) == [is |-> "tensor", val |-> <<x>>]
TensorList(xs) == [is |-> "list", val |-> xs]

KVals == (0 - 1)..MaxVocab
TileFactors == 1..MaxTileFactor

\* The module is imported and no TopKFaissSoftmax is built: _res = None.
\* _res = None, written as the resource object number 0.
None == [id |-> 0, tempMemory |-> 0]
\* trail: whether import faiss succeeded, how many resource objects were
\* created, and the value of _res the last forward handed to faiss.
NoTrail == [faiss |-> "module", created |-> 0, used |-> None]
FaissIdle == _res = None /\ instances = <<>> /\ trail = NoTrail

\* No handle is made yet and the temporary files are empty.
NoHandle ==
    [cls |-> "none", storage_state |-> "none", tensor |-> <<>>,
     filename |-> "none", offset |-> 0, dirty |-> FALSE]
NoRet == [op |-> "none", from |-> "none", err |-> "none", val |-> <<>>]
NoHist ==
    [ssd_steps |-> 0, orig_steps |-> 0, replaced |-> FALSE, saved |-> <<>>]
NoBuffer ==
    [capacity |-> 0, offset |-> 0, regions |-> <<>>, buffer |-> <<>>,
     op |-> "none", size |-> 0, err |-> "none", sizes |-> <<>>,
     tensors |-> <<>>]
HandleIdle ==
    /\ ssd_handle = NoHandle /\ files = <<>> /\ orig_tensor = <<>>
    /\ orig_copy = <<>> /\ ret = NoRet /\ hist = NoHist
OffloadIdle == HandleIdle /\ ssd_buffer = NoBuffer

\* No kernel is constructed yet.
InitKernel ==
    /\ FaissIdle /\ OffloadIdle
    /\ dtype \in DTypes
    /\ tieLow \in BOOLEAN
    /\ kind = "none" /\ k = 0 /\ tile_factor = 0 /\ fcs = <<>>
    /\ weight = <<>> /\ vocabs = 0 /\ fp16 = FALSE
    /\ pc = "new" /\ calls = 0 /\ out = NoOut

\* get_data: activation, weight and target of one shape and dtype.
Init ==
    /\ \E nv \in 1..MaxVocab, nt \in 1..MaxTokens :
          /\ proj_weight \in [1..nv -> WeightRow]
          /\ input \in [1..nt -> ActRow]
          /\ target \in [1..nt -> 0..(nv - 1)]
    /\ InitKernel

\* get_data for one token and a wider vocabulary, every weight column
\* the same.
InitTiles ==
    /\ \E nv \in 1..MaxWideVocab :
          /\ proj_weight \in {[v \in 1..nv |-> r] : r \in WeightRow}
          /\ input \in [1..1 -> ActRow]
          /\ target \in [1..1 -> 0..(nv - 1)]
    /\ InitKernel

\* get_data for one token and a wider vocabulary whose weight columns
\* differ: column v holds (v * s) % 3 - 1, for a stride s of 1 or 2.
InitWide ==
    /\ \E nv \in 1..MaxWideVocab :
          /\ proj_weight \in
                {[v \in 1..nv |-> <<((v * s) % 3) - 1>>] : s \in {1, 2}}
          /\ input \in [1..1 -> ActRow]
          /\ target \in [1..1 -> 0..(nv - 1)]
    /\ InitKernel

\* BaselineSoftmax.__init__ (k is ignored)
BaselineInit ==
    /\ pc = "new"
    /\ kind' = "Baseline"
    /\ fcs' = <<proj_weight>>
    /\ fp16' = (dtype = "float16")
    /\ pc' = "ready"
    /\ UNCHANGED <<globals, offload, ssd_buffer, data, k, tile_factor, weight, vocabs, calls, out>>

\* BaselineSoftmax.forward; the last assert raises unless x is float32.
BaselineForward ==
    /\ kind = "Baseline" /\ pc \in {"ready", "done"} /\ calls < MaxCalls
    /\ calls' = calls + 1
    /\ LET x == BaselineOut(fcs[1], fp16, input, dtype)
       IN  IF x.dtype = "float32"
           THEN out' = Tensor(x) /\ pc' = "done"
           ELSE out' = NoOut /\ pc' = "raised"
    /\ UNCHANGED <<globals, offload, ssd_buffer, data, kernel>>

\* TiledSoftmax.__init__ (k is ignored)
TiledInit(tf) ==
    /\ pc = "new"
    /\ kind' = "Tiled"
    /\ fcs' = <<proj_weight>>
    /\ fp16' = (dtype = "float16")
    /\ tile_factor' = tf
    /\ pc' = "ready"
    /\ UNCHANGED <<globals, offload, ssd_buffer, data, k, weight, vocabs, calls, out>>

\* TiledSoftmax.forward
TiledForward ==
    /\ kind = "Tiled" /\ pc \in {"ready", "done"} /\ calls < MaxCalls
    /\ calls' = calls + 1
    /\ IF SplitOk(Len(input), Len(input) \div tile_factor)
       THEN LET xs == TiledOut(fcs[1], fp16, input, tile_factor, dtype)
            IN  IF \A i \in 1..Len(xs) : xs[i].dtype = "float32"
                THEN out' = TensorList(xs) /\ pc' = "done"
                ELSE out' = NoOut /\ pc' = "raised"
       ELSE out' = NoOut /\ pc' = "raised"
    /\ UNCHANGED <<globals, offload, ssd_buffer, data, kernel>>

\* InplaceSoftmax.__init__: asserts a float32 weight (k is ignored).
InplaceInit ==
    /\ pc = "new"
    /\ kind' = "Inplace"
    /\ IF dtype = "float32"
       THEN fcs' = <<proj_weight>> /\ pc' = "ready"
       ELSE pc' = "raised" /\ UNCHANGED fcs
    /\ UNCHANGED <<globals, offload, ssd_buffer, data, k, tile_factor, weight, vocabs, fp16, calls, out>>

\* InplaceSoftmax.forward
InplaceForward ==
    /\ kind = "Inplace" /\ pc \in {"ready", "done"} /\ calls < MaxCalls
    /\ calls' = calls + 1
    /\ out' = Tensor(InplaceOut(fcs[1], input, dtype))
    /\ pc' = "done"
    /\ UNCHANGED <<globals, offload, ssd_buffer, data, kernel>>

\* TopKSoftmax.__init__: asserts a float32 weight.
TopKInit(kk) ==
    /\ pc = "new"
    /\ kind' = "TopK"
    /\ IF dtype = "float32"
       THEN fcs' = <<proj_weight>> /\ k' = kk /\ pc' = "ready"
       ELSE pc' = "raised" /\ UNCHANGED <<fcs, k>>
    /\ UNCHANGED <<globals, offload, ssd_buffer, data, tile_factor, weight, vocabs, fp16, calls, out>>

\* TopKSoftmax.forward
TopKForward ==
    /\ kind = "TopK" /\ pc \in {"ready", "done"} /\ calls < MaxCalls
    /\ calls' = calls + 1
    /\ IF TopKOk(Len(fcs[1]), k)
       THEN /\ out' = Tensor(TopKOut(fcs[1], input, target, k, tieLow, dtype))
            /\ pc' = "done"
       ELSE out' = NoOut /\ pc' = "raised"
    /\ UNCHANGED <<globals, offload, ssd_buffer, data, kernel>>

\* TopKTiledSoftmax.__init__
TopKTiledInit(kk, tf) ==
    /\ pc = "new"
    /\ kind' = "TopKTiled"
    /\ IF SplitOk(Len(proj_weight), Len(proj_weight) \div tf)
       THEN /\ vocabs' = Len(proj_weight)
            /\ fcs' = Split(proj_weight, Len(proj_weight) \div tf)
            /\ k' = kk
            /\ weight' = Transpose(proj_weight)
            /\ fp16' = (dtype = "float16")
            /\ pc' = "ready"
       ELSE /\ pc' = "raised"
            /\ UNCHANGED <<vocabs, fcs, k, weight, fp16>>
    /\ UNCHANGED <<globals, offload, ssd_buffer, data, tile_factor, calls, out>>

\* Variant: the gathered weight is scaled in place, through the view the
\* kernel shares with proj_weight.
TopKTiledForwardInPlace ==
    /\ kind = "TopKTiled" /\ pc \in {"ready", "done"} /\ calls < MaxCalls
    /\ calls' = calls + 1
    /\ IF TilesOk(fcs, k)
       THEN /\ out' = Tensor(TopKTiledOut(fcs, weight, vocabs, fp16, input,
                                          target, k, tieLow, dtype))
            /\ pc' = "done"
       ELSE out' = NoOut /\ pc' = "raised"
    /\ weight' = [h \in 1..Len(weight) |->
                    [v \in 1..Len(weight[h]) |-> 2 * weight[h][v]]]
    /\ UNCHANGED <<globals, offload, ssd_buffer, data, kind, k, tile_factor, fcs, vocabs, fp16>>

\* TopKTiledSoftmax.forward
TopKTiledForward ==
    /\ kind = "TopKTiled" /\ pc \in {"ready", "done"} /\ calls < MaxCalls
    /\ calls' = calls + 1
    /\ IF TilesOk(fcs, k)
       THEN /\ out' = Tensor(TopKTiledOut(fcs, weight, vocabs, fp16, input,
                                          target, k, tieLow, dtype))
            /\ pc' = "done"
       ELSE out' = NoOut /\ pc' = "raised"
    /\ UNCHANGED <<globals, offload, ssd_buffer, data, kernel>>

Next ==
    \/ BaselineInit
    \/ BaselineForward
    \/ \E tf \in TileFactors : TiledInit(tf)
    \/ TiledForward
    \/ InplaceInit
    \/ InplaceForward
    \/ \E kk \in KVals : TopKInit(kk)
    \/ TopKForward
    \/ \E kk \in KVals, tf \in TileFactors : TopKTiledInit(kk, tf)
    \/ TopKTiledForward

Spec == Init /\ [][Next]_vars

SpecTiles == InitTiles /\ [][Next]_vars

SpecWide == InitWide /\ [][Next]_vars

\* ----------------------------------------------------- SSD offload handle
\* A tensor is the flat row-major sequence of its elements; an element is
\* counted in units of the learning rate 0.1 of the tests.  A file is the
\* sequence of its element cells, without header; offsets count cells.
\* Each optimizer of the tests makes one step.
MaxSteps == 1
Paths == {"f"}
Offsets == (0 - 1)..MaxOffset
ElemVals == {0, 1}
Tensors == [1..2 -> ElemVals]
Zeros(n) == [i \in 1..n |-> 0]
Ones(n) == [i \in 1..n |-> 1]
\* The values handed to write_in_place.
NewValues == {<<1, 0>>}

\* Variant: the region is read from the start of the file.
ReadAtStart(file, off, n) == SubSeq(file, 1, n)

\* The n cells of the file region at off.
ReadAt(file, off, n) == SubSeq(file, off + 1, off + n)

\* The file region at off holds n cells.
RegionOk(file, off, n) == off + n <= Len(file)

\* The file after v is written at off; a gap before off reads as zeros.
WriteAt(file, off, v) ==
    LET end == IF Len(file) > off + Len(v) THEN Len(file) ELSE off + Len(v)
    IN  [i \in 1..end |->
            IF i > off /\ i <= off + Len(v) THEN v[i - off]
            ELSE IF i <= Len(file) THEN file[i] ELSE 0]

\* torch.optim.SGD(lr=0.1).step(): p -= lr * grad, in units of lr.
SgdUpdate(p, grad) == [i \in 1..Len(p) |-> p[i] - grad[i]]

\* The result of an operation of the handle in storage state from.
Result(op, from, err, val) ==
    [op |-> op, from |-> from, err |-> err, val |-> val]
Bound(h) == h.filename # "none"
\* The value persisted last is the content of the bound region as long as
\* the handle stays bound to that region.
SavedFor(h, path, off) ==
    IF h.filename = path /\ h.offset = off THEN hist.saved ELSE <<>>
\* The region (path, off) holds what the handle persisted there.
Persisted(h, path, off) == SavedFor(h, path, off) # <<>>

\* No softmax kernel takes part in the offload tests.
SoftmaxIdle ==
    /\ proj_weight = <<>> /\ input = <<>> /\ target = <<>>
    /\ dtype = "float32" /\ tieLow = TRUE
    /\ kind = "none" /\ k = 0 /\ tile_factor = 0 /\ fcs = <<>>
    /\ weight = <<>> /\ vocabs = 0 /\ fp16 = FALSE
    /\ pc = "new" /\ calls = 0 /\ out = NoOut

\* tempfile.NamedTemporaryFile(), orig_tensor = torch.randn(shape)
InitSsd ==
    /\ SoftmaxIdle /\ FaissIdle
    /\ ssd_handle = NoHandle
    /\ files = [p \in Paths |-> <<>>]
    /\ orig_tensor \in Tensors
    /\ orig_copy = <<>>
    /\ ret = NoRet /\ hist = NoHist /\ ssd_buffer = NoBuffer

\* What no operation of the handle touches.
rest == <<data, kernel, pc, calls, out, globals, ssd_buffer, orig_tensor>>

\* SsdTensorHandle.from_tensor(orig_tensor); orig_copy is the twin.
FromTensor ==
    /\ ssd_handle.cls = "none"
    /\ ssd_handle' = [NoHandle EXCEPT !.cls = "SsdTensorHandle",
                                      !.storage_state = "InMemoryCache",
                                      !.tensor = orig_tensor]
    /\ orig_copy' = orig_tensor
    /\ ret' = Result("from_tensor", "none", "none", <<>>)
    /\ UNCHANGED <<rest, files, hist>>

\* SsdParameter(shape, dtype): a zero-initialised handle in memory.
NewSsdParameter ==
    /\ ssd_handle.cls = "none"
    /\ ssd_handle' = [NoHandle EXCEPT !.cls = "SsdParameter",
                                      !.storage_state = "InMemoryCache",
                                      !.tensor = Zeros(Len(orig_tensor))]
    /\ ret' = Result("construct", "none", "none", <<>>)
    /\ UNCHANGED <<rest, files, hist, orig_copy>>

\* ssd_param.point_to_tensor(orig_copy), on the handle as constructed;
\* param = Parameter(orig_copy) is the twin.
PointToTensor ==
    /\ ssd_handle.cls = "SsdParameter" /\ orig_copy = <<>>
    /\ hist = NoHist /\ ssd_handle.storage_state = "InMemoryCache"
    /\ ssd_handle' = [ssd_handle EXCEPT !.tensor = orig_tensor]
    /\ orig_copy' = orig_tensor
    /\ ret' = Result("point_to_tensor", "InMemoryCache", "none", <<>>)
    /\ UNCHANGED <<rest, files, hist>>

\* set_file_params(path, offset)
SetFileParams(path, off) ==
    /\ ssd_handle.cls # "none"
    /\ IF off < 0
       THEN /\ ret' = Result("set_file_params", ssd_handle.storage_state,
                             "InvalidBinding", <<>>)
            /\ UNCHANGED <<ssd_handle, hist>>
       ELSE /\ ssd_handle' = [ssd_handle EXCEPT !.filename = path,
                                                !.offset = off]
            /\ hist' = [hist EXCEPT !.saved = SavedFor(ssd_handle, path, off)]
            /\ ret' = Result("set_file_params", ssd_handle.storage_state,
                             "none", <<>>)
    /\ UNCHANGED <<rest, files, orig_copy>>

\* to_file(release_tensor_after_write): persist_to_file(release_cache)
ToFile(release) ==
    /\ ssd_handle.cls # "none"
    /\ IF ~Bound(ssd_handle)
       THEN /\ ret' = Result("to_file", ssd_handle.storage_state,
                             "NoFileBound", <<>>)
            /\ UNCHANGED <<ssd_handle, files, hist>>
       ELSE IF ssd_handle.storage_state = "OnFile"
       THEN /\ ret' = Result("to_file", "OnFile", "none", <<>>)
            /\ UNCHANGED <<ssd_handle, files, hist>>
       ELSE /\ files' = [files EXCEPT ![ssd_handle.filename] =
                            WriteAt(@, ssd_handle.offset, ssd_handle.tensor)]
            /\ ssd_handle' =
                  IF release
                  THEN [ssd_handle EXCEPT !.storage_state = "OnFile",
                                          !.tensor = <<>>, !.dirty = FALSE]
                  ELSE [ssd_handle EXCEPT !.dirty = FALSE]
            /\ hist' = [hist EXCEPT !.saved =
                            IF release THEN ssd_handle.tensor ELSE <<>>]
            /\ ret' = Result("to_file", ssd_handle.storage_state, "none", <<>>)
    /\ UNCHANGED <<rest, orig_copy>>

\* The handle after the bound file region is read into a fresh cache.
Materialized(h) ==
    [h EXCEPT !.storage_state = "InMemoryCache", !.dirty = FALSE,
              !.tensor = ReadAt(files[h.filename], h.offset,
                                Len(orig_tensor))]
CanMaterialize(h) ==
    Bound(h) /\ RegionOk(files[h.filename], h.offset, Len(orig_tensor))

\* point_to_file(path, offset): bind, then materialize_from_file().
PointToFile(path, off) ==
    /\ ssd_handle.cls # "none"
    /\ IF off < 0
       THEN /\ ret' = Result("point_to_file", ssd_handle.storage_state,
                             "InvalidBinding", <<>>)
            /\ UNCHANGED <<ssd_handle, hist>>
       ELSE LET h == [ssd_handle EXCEPT !.filename = path, !.offset = off]
            IN  /\ hist' = [hist EXCEPT
                       !.saved = SavedFor(ssd_handle, path, off),
                       !.replaced = @ \/ (/\ CanMaterialize(h)
                                          /\ ~Persisted(ssd_handle, path,
                                                       off))]
                /\ IF CanMaterialize(h)
                   THEN /\ ssd_handle' = Materialized(h)
                        /\ ret' = Result("point_to_file",
                                ssd_handle.storage_state, "none", <<>>)
                   ELSE /\ ssd_handle' = h
                        /\ ret' = Result("point_to_file",
                                ssd_handle.storage_state, "ShapeMismatch",
                                <<>>)
    /\ UNCHANGED <<rest, files, orig_copy>>

\* to_tensor(): the cached tensor; a handle whose tensor was released
\* reads the bound file region into a fresh cache first.
ToTensor ==
    /\ ssd_handle.cls # "none"
    /\ IF ssd_handle.storage_state # "OnFile"
       THEN /\ ret' = Result("to_tensor", ssd_handle.storage_state, "none",
                             ssd_handle.tensor)
            /\ UNCHANGED <<ssd_handle, hist>>
       ELSE IF CanMaterialize(ssd_handle)
       THEN /\ ssd_handle' = Materialized(ssd_handle)
            /\ hist' = [hist EXCEPT !.replaced = @ \/ hist.saved = <<>>]
            /\ ret' = Result("to_tensor", "OnFile", "none",
                             Materialized(ssd_handle).tensor)
       ELSE /\ ret' = Result("to_tensor", "OnFile", "ShapeMismatch", <<>>)
            /\ UNCHANGED <<ssd_handle, hist>>
    /\ UNCHANGED <<rest, files, orig_copy>>

\* Variant: a write to a handle on file loads the file region first.
WriteInPlaceLoads(v) ==
    /\ ssd_handle.cls # "none"
    /\ ssd_handle' = [ssd_handle EXCEPT !.storage_state = "InMemoryCache",
                                        !.tensor = v, !.dirty = TRUE]
    /\ hist' = [hist EXCEPT !.replaced = TRUE]
    /\ ret' = Result("write_in_place", ssd_handle.storage_state, "none", <<>>)
    /\ UNCHANGED <<rest, files, orig_copy>>

\* write_in_place(new_value)
WriteInPlace(v) ==
    /\ ssd_handle.cls # "none"
    /\ IF ssd_handle.storage_state = "OnFile"
       THEN /\ ret' = Result("write_in_place", "OnFile", "NotResident", <<>>)
            /\ UNCHANGED <<ssd_handle, hist>>
       ELSE /\ ssd_handle' = [ssd_handle EXCEPT !.tensor = v,
                                                !.dirty = TRUE]
            /\ hist' = [hist EXCEPT !.replaced = TRUE]
            /\ ret' = Result("write_in_place", ssd_handle.storage_state,
                             "none", <<>>)
    /\ UNCHANGED <<rest, files, orig_copy>>

\* Variant: the step updates the cached tensor only.
SsdStepNoFlush ==
    /\ ssd_handle.cls # "none" /\ hist.ssd_steps < MaxSteps
    /\ ssd_handle.storage_state # "OnFile"
    /\ ssd_handle' = [ssd_handle EXCEPT
            !.tensor = SgdUpdate(@, Ones(Len(@))), !.dirty = TRUE]
    /\ hist' = [hist EXCEPT !.ssd_steps = @ + 1]
    /\ ret' = Result("ssd_step", ssd_handle.storage_state, "none", <<>>)
    /\ UNCHANGED <<rest, files, orig_copy>>

\* y1 = ssd_handle + 1; optimizer_ssd.zero_grad(); y1.sum().backward();
\* optimizer_ssd.step(): the gradient of the loss is 1 in every element;
\* the handle reads its value as to_tensor does, and the update of a bound
\* handle is written to its file region.
SsdStep ==
    /\ ssd_handle.cls # "none" /\ hist.ssd_steps < MaxSteps
    /\ IF ssd_handle.storage_state = "OnFile" /\ ~CanMaterialize(ssd_handle)
       THEN /\ ret' = Result("ssd_step", "OnFile", "ShapeMismatch", <<>>)
            /\ UNCHANGED <<ssd_handle, files, hist>>
       ELSE LET h == IF ssd_handle.storage_state = "OnFile"
                     THEN Materialized(ssd_handle) ELSE ssd_handle
                new == SgdUpdate(h.tensor, Ones(Len(h.tensor)))
            IN  /\ ssd_handle' = [h EXCEPT !.tensor = new,
                                           !.dirty = ~Bound(h)]
                /\ files' = IF Bound(h)
                            THEN [files EXCEPT ![h.filename] =
                                    WriteAt(@, h.offset, new)]
                            ELSE files
                /\ hist' = [hist EXCEPT
                       !.ssd_steps = @ + 1,
                       !.replaced = @ \/ (/\ ssd_handle.storage_state = "OnFile"
                                          /\ hist.saved = <<>>)]
                /\ ret' = Result("ssd_step", ssd_handle.storage_state,
                                 "none", <<>>)
    /\ UNCHANGED <<rest, orig_copy>>

\* y2 = orig_copy + 1; optimizer_orig.zero_grad(); y2.sum().backward();
\* optimizer_orig.step(): the same step on the plain tensor.
OrigStep ==
    /\ orig_copy # <<>> /\ hist.orig_steps < MaxSteps
    /\ orig_copy' = SgdUpdate(orig_copy, Ones(Len(orig_copy)))
    /\ hist' = [hist EXCEPT !.orig_steps = @ + 1]
    /\ ret' = Result("orig_step", ssd_handle.storage_state, "none", <<>>)
    /\ UNCHANGED <<rest, files, ssd_handle>>

NextSsd ==
    \/ FromTensor
    \/ NewSsdParameter
    \/ PointToTensor
    \/ \E path \in Paths, off \in Offsets : SetFileParams(path, off)
    \/ \E release \in BOOLEAN : ToFile(release)
    \/ \E path \in Paths, off \in Offsets : PointToFile(path, off)
    \/ ToTensor
    \/ \E v \in NewValues : WriteInPlace(v)
    \/ SsdStep
    \/ OrigStep

SpecSsd == InitSsd /\ [][NextSsd]_vars

\* ------------------------------------------------------ SSD offload buffer
\* The flat buffer of the wrapped model: a region of capacity elements, the
\* cursor offset, and the (offset, length) assigned to every handle in
\* the order of insertion.  op, size and err describe the last call,
\* sizes lists the sizes inserted, tensors is what get_tensors returned
\* last.  The n-th handle inserted holds the value n in every element.

\* allocate(capacity): one zeroed region, nothing inserted.
InitBuffer ==
    /\ SoftmaxIdle /\ FaissIdle /\ HandleIdle
    /\ \E capacity \in 1..MaxCapacity :
          ssd_buffer = [NoBuffer EXCEPT !.capacity = capacity,
                                         !.buffer = Zeros(capacity)]

\* Variant: the cursor stays where it is.
NextFreeStay(offset, size) == offset

\* The cursor after a tensor of size elements is placed at offset.
NextFree(offset, size) == offset + size

\* insert(handle) of a tensor of size elements
Insert(size) ==
    LET b == ssd_buffer
        n == Len(b.regions) + 1
    IN  /\ b.capacity > 0
        /\ IF size > b.capacity - b.offset
           THEN ssd_buffer' = [b EXCEPT !.op = "insert", !.size = size,
                                        !.err = "BufferFull"]
           ELSE ssd_buffer' =
                  [b EXCEPT !.op = "insert", !.size = size, !.err = "none",
                            !.buffer = WriteAt(@, b.offset,
                                               [i \in 1..size |-> n]),
                            !.regions = Append(@, [offset |-> b.offset,
                                                   length |-> size]),
                            !.sizes = Append(@, size),
                            !.offset = NextFree(b.offset, size)]
        /\ UNCHANGED <<data, kernel, pc, calls, out, globals, offload>>

\* get_tensors(): one view per inserted handle, in the order of insertion.
GetTensors ==
    LET b == ssd_buffer
    IN  /\ b.capacity > 0
        /\ ssd_buffer' =
              [b EXCEPT !.op = "get_tensors", !.err = "none",
                        !.tensors =
                            [i \in 1..Len(b.regions) |->
                                [offset |-> b.regions[i].offset,
                                 length |-> b.regions[i].length,
                                 value |-> ReadAt(b.buffer,
                                                  b.regions[i].offset,
                                                  b.regions[i].length)]]]
        /\ UNCHANGED <<data, kernel, pc, calls, out, globals, offload>>

NextBuffer ==
    \/ \E size \in 1..MaxSize : Insert(size)
    \/ GetTensors

SpecBuffer == InitBuffer /\ [][NextBuffer]_vars

\* ------------------------------------------------------ TopKFaissSoftmax
\* The module is imported (faiss found or not, _res = None); the data is
\* that of get_data.  Every construction gets the weight in a dtype of
\* its own.
InitFaiss ==
    /\ \E nv \in 1..MaxVocab :
          /\ proj_weight \in [1..nv -> WeightRow]
          /\ input \in [1..1 -> ActRow]
          /\ target = [t \in 1..1 |-> 0]
    /\ dtype = "float32" /\ tieLow = TRUE
    /\ kind = "none" /\ k = 0 /\ tile_factor = 0 /\ fcs = <<>>
    /\ weight = <<>> /\ vocabs = 0 /\ fp16 = FALSE
    /\ pc = "new" /\ calls = 0 /\ out = NoOut
    /\ OffloadIdle
    /\ _res = None /\ instances = <<>>
    /\ \E f \in {"module", "None"} : trail = [NoTrail EXCEPT !.faiss = f]

\* faiss.StandardGpuResources() followed by setTempMemory: the n-th
\* resource object made in this process.
NewResources(n) == [id |-> n, tempMemory |-> 1024 * 1024 * 10]

\* The m smallest members of a bag of distances given as a sequence, in
\* ascending order.
RECURSIVE Smallest(_, _)
Smallest(d, m) ==
    IF m = 0 \/ d = <<>> THEN <<>>
    ELSE LET lo == MinOf({d[i] : i \in 1..Len(d)})
             at == CHOOSE i \in 1..Len(d) : d[i] = lo
         IN  <<lo>> \o Smallest([i \in 1..(Len(d) - 1) |->
                                    IF i < at THEN d[i] ELSE d[i + 1]],
                                m - 1)

\* D of faiss.knn_gpu(res, input, b, k): for every token the squared L2
\* distances to its k nearest rows of b, ascending; places beyond the
\* number of rows hold "inf".
KnnD(x, b, kk) ==
    [t \in 1..Len(x) |->
        LET d == [v \in 1..Len(b) |->
                    SumSeq([h \in 1..Len(x[t]) |->
                                (x[t][h] - b[v][h]) * (x[t][h] - b[v][h])])]
            near == Smallest(d, kk)
        IN  [m \in 1..kk |-> IF m <= Len(near) THEN near[m] ELSE "inf"]]

\* Variant: every construction makes a resource object of its own.
TopKFaissInitAlways(kk, dt) ==
    /\ Len(instances) < MaxInstances
    /\ trail.faiss # "None" /\ dt = "float32"
    /\ _res' = NewResources(trail.created + 1)
    /\ trail' = [trail EXCEPT !.created = @ + 1]
    /\ instances' = Append(instances, [k |-> kk, b |-> proj_weight])
    /\ UNCHANGED <<data, kernel, pc, calls, out, offload, ssd_buffer>>

\* TopKFaissSoftmax.__init__ on the weight in dtype dt: the two asserts
\* raise before _res is looked at, and then no object is made.
TopKFaissInit(kk, dt) ==
    /\ Len(instances) < MaxInstances
    /\ IF trail.faiss = "None" \/ dt # "float32"
       THEN /\ pc' = "raised"
            /\ UNCHANGED <<_res, instances, trail>>
       ELSE /\ pc' = "ready"
            /\ IF _res = None
               THEN /\ _res' = NewResources(trail.created + 1)
                    /\ trail' = [trail EXCEPT !.created = @ + 1]
               ELSE UNCHANGED <<_res, trail>>
            /\ instances' = Append(instances, [k |-> kk, b |-> proj_weight])
    /\ UNCHANGED <<data, kernel, calls, out, offload, ssd_buffer>>

\* TopKFaissSoftmax.forward of the i-th object: returns D.
TopKFaissForward(i) ==
    /\ i \in 1..Len(instances) /\ calls < MaxCalls
    /\ calls' = calls + 1
    /\ trail' = [trail EXCEPT !.used = _res]
    /\ out' = Tensor([dtype |-> "float32",
                      rows |-> KnnD(input, instances[i].b, instances[i].k)])
    /\ pc' = "done"
    /\ UNCHANGED <<data, kernel, offload, ssd_buffer, _res, instances>>

NextFaiss ==
    \/ \E kk \in 1..MaxVocab, dt \in DTypes : TopKFaissInit(kk, dt)
    \/ \E i \in 1..MaxInstances : TopKFaissForward(i)

SpecFaiss == InitFaiss /\ [][NextFaiss]_vars

\* ================================================================ claims
\* A TopKTiledSoftmax.forward has returned; its output and the values the
\* claims read from it.
Returned == kind = "TopKTiled" /\ pc = "done"
Tokens == 1..Len(input)
Columns == 0..(vocabs - 1)
Row(t) == out.val[1].rows[t]
NonZero(t) == {c \in Columns : Row(t).num[c + 1] # 0}
\* The second top-K of this call, and the index set of a row of it.
Final == FinalTopK(fcs, input, k, tieLow)
IdxSet(f, t) == {f.idx[t][m] : m \in 1..k}
Logit(t, c) == Dot(input[t], proj_weight[c + 1])
DistinctLogits(t) ==
    \A c, d \in Columns : c # d => Logit(t, c) # Logit(t, d)
TargetEntries(sp, t) ==
    {e \in 1..Len(sp) : sp[e][1] = t - 1 /\ sp[e][2] = target[t]}

\* C1: with 0 < k <= width of every tile, the output of
\* TopKTiledSoftmax.forward is exactly zero in every column of a token's row
\* that is neither one of the token's final top-k indices nor its label.
C1_ZeroOutsideSupport ==
    (Returned /\ k > 0) =>
        LET f == Final
        IN  \A t \in Tokens : \A c \in Columns :
                c \notin (IdxSet(f, t) \cup {target[t]})
                    => Row(t).num[c + 1] = 0

C1_Witness ==
    /\ Returned /\ k > 0
    /\ LET f == Final
       IN  \E t \in Tokens : \E c \in Columns :
               c \notin (IdxSet(f, t) \cup {target[t]})

\* C2: when a token's label is already among its top-k indices, the sparse
\* pre-softmax structure holds one entry for the label column, and its value
\* is the label's true logit (input row dot weight column), not twice it.
C2_LabelInsertedOnce ==
    Returned =>
        LET f == Final
            sp == SparseResult(fcs, weight, input, target, k, tieLow)
        IN  \A t \in Tokens :
                target[t] \in IdxSet(f, t) =>
                    /\ Cardinality(TargetEntries(sp, t)) = 1
                    /\ Coalesced(sp, t - 1, target[t]) = Logit(t, target[t])

C4_LabelNonZero ==
    Returned => \A t \in Tokens : Row(t).num[target[t] + 1] # 0

C4_Witness ==
    Returned /\ LET f == Final
                IN  \E t \in Tokens : target[t] \notin IdxSet(f, t)

\* C5: for every token, the entries of the output row of
\* TopKTiledSoftmax.forward sum to 1.
C5_RowSumsToOne ==
    Returned =>
        \A t \in Tokens :
            Row(t).den > 0 /\ SumSeq(Row(t).num) = Row(t).den

C5_Witness ==
    Returned /\ \E t \in Tokens : Cardinality(NonZero(t)) >= 2

C7_InvalidKRejected ==
    (/\ kind = "TopKTiled" /\ calls > 0
     /\ ~(\A n \in 1..Len(fcs) : 0 < k /\ k <= Len(fcs[n])))
        => (pc = "raised" /\ out = NoOut)

\* C7 as amended: forward raises instead of returning an output exactly
\* when k < 0 or k exceeds the width of some tile (the narrower last tile
\* included); k = 0 is accepted, and then every row of the output puts the
\* whole probability on the label.
C7_OutOfRangeKRaises ==
    (kind = "TopKTiled" /\ calls > 0) =>
        IF k < 0 \/ \E n \in 1..Len(fcs) : k > Len(fcs[n])
        THEN pc = "raised" /\ out = NoOut
        ELSE /\ pc = "done" /\ out.is = "tensor"
             /\ k = 0 => \A t \in Tokens : NonZero(t) = {target[t]}

C7_Witness ==
    /\ kind = "TopKTiled" /\ calls > 0 /\ pc = "raised"
    /\ 0 < k /\ k <= Len(fcs[1]) /\ k > Len(fcs[Len(fcs)])

\* C8: when k equals the vocabulary size, with a single tile, the output of
\* TopKTiledSoftmax.forward equals the output of BaselineSoftmax.forward on
\* the same activation, weight and labels, for every token and column.
C8_FullKEqualsBaseline ==
    (Returned /\ k = vocabs /\ Len(fcs) = 1) =>
        out.val[1].rows = BaselineOut(proj_weight, fp16, input, dtype).rows

\* C9: a forward call of a kernel leaves the kernel's state (k, the tile
\* list, the projection weight) unchanged, and a call after one that
\* returned returns the same output for the same (activation, label) input.
C9_ForwardKeepsKernel ==
    [][calls' = calls + 1 =>
          /\ kernel' = kernel
          /\ proj_weight' = proj_weight
          /\ (pc = "done" => (pc' = "done" /\ out' = out))]_vars

C9_Witness ==
    kind \in {"TopKTiled", "Tiled"} /\ calls = 2 /\ pc = "done"

\* C10: the output of BaselineSoftmax, TiledSoftmax and TopKTiledSoftmax is
\* float32, for float16 weight and activation as for float32 ones.
C10_OutputFloat32 ==
    (kind \in {"Baseline", "Tiled", "TopKTiled"} /\ pc = "done") =>
        \A i \in 1..Len(out.val) : out.val[i].dtype = "float32"

C10_Witness ==
    kind = "TopKTiled" /\ pc = "done" /\ dtype = "float16"

\* The rows a forward returned, in order: the rows of the one tensor, or
\* of the tensors of the list one after the other.
OutRows == Flatten([i \in 1..Len(out.val) |-> out.val[i].rows])

\* C11: on the same activation, weight and labels, a forward call of
\* BaselineSoftmax, InplaceSoftmax and TiledSoftmax returns the dense
\* softmax over the whole vocabulary, one row per input token in input
\* order and every token once, for TiledSoftmax whatever the token count
\* is against tile_factor.
C11_BaselinesDenseSoftmax ==
    (kind \in {"Baseline", "Inplace", "Tiled"} /\ calls > 0) =>
        /\ pc = "done"
        /\ OutRows = Softmax(Linear(proj_weight, input))

\* The content of the file region the handle is bound to.
BoundRegion ==
    ReadAt(files[ssd_handle.filename], ssd_handle.offset, Len(orig_tensor))

\* C12 as stated: a handle in OnFile state (after to_file with the cache
\* released) fails read_as_value (to_tensor) and write_in_place with
\* NotResident; no read succeeds directly from OnFile state.
C12_OnFileNotResident ==
    (ret.from = "OnFile" /\ ret.op \in {"to_tensor", "write_in_place"})
        => ret.err = "NotResident"

\* C12 as amended: on a handle in OnFile state write_in_place fails with
\* NotResident and leaves the handle on file, but to_tensor never fails
\* with NotResident: it needs no materialize step of the caller, it reads
\* the bound file region itself, returns that content and leaves the
\* handle resident (it fails only when the region is shorter than the
\* tensor).
C12_OnFileWriteFailsReadLoads ==
    ret.from = "OnFile" =>
        /\ ret.op = "write_in_place" =>
              ret.err = "NotResident" /\ ssd_handle.storage_state = "OnFile"
        /\ ret.op = "to_tensor" =>
              IF ret.err = "none"
              THEN /\ ssd_handle.storage_state = "InMemoryCache"
                   /\ ret.val = BoundRegion
                   /\ ret.val = ssd_handle.tensor
              ELSE /\ ret.err = "ShapeMismatch"
                   /\ ssd_handle.storage_state = "OnFile"

C12_Witness ==
    /\ ret.from = "OnFile" /\ ret.op = "to_tensor" /\ ret.err = "none"
    /\ ssd_handle.cls = "SsdTensorHandle" /\ ret.val = orig_tensor
    /\ ret.val # Zeros(Len(orig_tensor))

\* C13: round trip.  For every tensor value and every bound file region,
\* a value written by to_file with the cache released and then read back
\* from the file (by to_tensor, or by point_to_file accepted for the same
\* region) is the value that was written, for SsdTensorHandle and for
\* SsdParameter.
C13_RoundTrip ==
    (/\ ret.from = "OnFile" /\ ret.op \in {"to_tensor", "point_to_file"}
     /\ ret.err # "InvalidBinding" /\ hist.saved # <<>>)
        => /\ ret.err = "none"
           /\ ssd_handle.tensor = hist.saved
           /\ ret.op = "to_tensor" => ret.val = hist.saved

C13_Witness ==
    /\ ret.from = "OnFile" /\ ret.op = "to_tensor" /\ ret.err = "none"
    /\ ssd_handle.cls = "SsdParameter" /\ ssd_handle.offset > 0
    /\ hist.saved = orig_tensor /\ ret.val = orig_tensor
    /\ orig_tensor[1] # orig_tensor[2]

PackedViews(b) ==
    LET v == b.tensors
    IN  /\ Len(v) = Len(b.sizes)
        /\ \A i \in 1..Len(v) :
              /\ v[i].length = b.sizes[i]
              /\ v[i].value = [e \in 1..b.sizes[i] |-> i]
              /\ v[i].offset >= 0
              /\ v[i].offset + v[i].length <= b.capacity
        /\ \A i, j \in 1..Len(v) :
              i < j => /\ v[i].offset < v[j].offset
                       /\ v[i].offset + v[i].length <= v[j].offset

Built == kind = "TopKTiled" /\ pc \in {"ready", "done"}
Width(n) == Len(fcs[n])
Offset(n) == SumSeq([m \in 1..(n - 1) |-> Width(m)])
\* The tiles are contiguous and disjoint and cover [0, out_dim) once: tile
\* n holds the columns Offset(n) .. Offset(n) + Width(n) - 1, in order.
TilesPartition ==
    /\ Offset(Len(fcs) + 1) = Len(proj_weight)
    /\ \A n \in 1..Len(fcs) :
          /\ Width(n) >= 1
          /\ \A c \in 1..Width(n) : fcs[n][c] = proj_weight[Offset(n) + c]
\* The tile factors T <= out_dim the constructor can have been called
\* with to build these tiles.
FactorsOf(tiles) ==
    {T \in TileFactors :
        /\ Len(proj_weight) >= T
        /\ tiles = Split(proj_weight, Len(proj_weight) \div T)}

\* C16 as stated: for out_dim >= T, TopKTiledSoftmax.__init__ splits the
\* projection weight into exactly T tiles, contiguous, pairwise disjoint
\* and covering every vocabulary index once.
C16_ExactlyTTiles ==
    Built => \A T \in FactorsOf(fcs) : Len(fcs) = T /\ TilesPartition

\* C16 as amended: for out_dim >= T the tiles are contiguous, pairwise
\* disjoint and cover every vocabulary index once; every tile but the last
\* is out_dim \div T wide and the last is at most that wide; there are T
\* tiles when out_dim is a multiple of T and more than T otherwise.
C16_TilesOfFloorWidth ==
    Built =>
        \A T \in FactorsOf(fcs) :
            LET size == Len(proj_weight) \div T
            IN  /\ TilesPartition
                /\ \A n \in 1..(Len(fcs) - 1) : Width(n) = size
                /\ Width(Len(fcs)) <= size
                /\ IF Len(proj_weight) % T = 0
                   THEN Len(fcs) = T ELSE Len(fcs) > T

C16_Witness ==
    /\ Built /\ Width(Len(fcs)) < Width(1)
    /\ \E T \in FactorsOf(fcs) : Len(proj_weight) % T # 0 /\ Len(fcs) > T

\* C17: in TopKTiledSoftmax.forward every tile-local top-k index becomes a
\* global vocabulary index by adding the column offset of its tile, the sum
\* of the widths of the tiles before it; every translated index, in the
\* per-tile candidates and in the final selection, lies in [0, vocabulary)
\* and names the weight column whose logit is the value paired with it.
C17_GlobalIndexNamesLogit ==
    (Returned /\ k > 0) =>
        LET loop == TileLoop(fcs, input, k, tieLow, Len(fcs))
            f == Final
        IN  \A t \in Tokens : \A m \in 1..k :
                /\ \A n \in 1..Len(fcs) :
                      LET I == TopK(Linear(fcs[n], input), k, tieLow).I
                          g == loop.idx[n][t][m]
                      IN  /\ g = I[t][m] + Offset(n)
                          /\ g \in Columns
                          /\ loop.val[n][t][m] = Logit(t, g)
                /\ f.idx[t][m] \in Columns
                /\ f.val[t][m] = Logit(t, f.idx[t][m])

C17_Witness ==
    /\ Returned /\ k > 0 /\ Len(fcs) >= 3 /\ k < Width(1)
    /\ LET f == Final
       IN  \E t \in Tokens : \E m \in 1..k :
               /\ f.idx[t][m] >= Offset(2)
               /\ \E c \in Columns : Logit(t, c) # Logit(t, f.idx[t][m])

\* C18: the k global indices the second top-k selects for one token are
\* pairwise distinct, so no two top-k candidates are summed into one
\* column of the sparse structure: two of its entries share a (token,
\* column) place only when one of them is a label entry.
C18_TopKIndicesDistinct ==
    Returned =>
        LET f == Final
            sp == SparseResult(fcs, weight, input, target, k, tieLow)
            ntopk == Len(input) * k
        IN  /\ \A t \in Tokens : \A m, n \in 1..k :
                  m # n => f.idx[t][m] # f.idx[t][n]
            /\ \A d, e \in 1..Len(sp) :
                  (d < e /\ sp[d][1] = sp[e][1] /\ sp[d][2] = sp[e][2])
                      => e > ntopk

C18_Witness ==
    /\ Returned /\ k >= 2 /\ Len(fcs) >= 2
    /\ \E t \in Tokens : \E c, d \in Columns :
           c # d /\ Logit(t, c) = Logit(t, d)
    /\ LET f == Final
       IN  \E t \in Tokens : target[t] \in IdxSet(f, t)

\* C19: over every sequence of TopKFaissSoftmax constructions and forward
\* calls, one resource object at most is ever created, and it is created
\* by the first construction that completes; once set, _res is never reset
\* or replaced; and every forward of every instance hands faiss a _res
\* that is set and has its temporary memory configured.
C19_ResCreatedOnce ==
    [][/\ trail'.created <= 1
       /\ _res # None => _res' = _res
       /\ (_res = None /\ _res' # None) =>
             /\ instances = <<>> /\ Len(instances') = 1
             /\ trail.created = 0 /\ trail'.created = 1
       /\ Len(instances') > 0 => _res' # None
       /\ calls' = calls + 1 =>
             /\ trail'.used = _res /\ trail'.used # None
             /\ trail'.used.tempMemory > 0]_vars

C19_Witness ==
    /\ Len(instances) = 2 /\ calls = 2 /\ pc = "done"
    /\ trail.created = 1 /\ trail.used = _res /\ _res # None
    /\ instances[1].k # instances[2].k

====
